---- MODULE Spec2Model ----
(***************************************************************************)
(* A model of the two in-memory structures of the editor core:             *)
(*   - ChunkTree (src/src/chunk_tree.rs): a persistent ternary tree over   *)
(*     a byte sequence, with from_slice / insert / remove / collect_bytes; *)
(*   - Memstore  (src/src/memstore.rs): a chunk cache over a LoadStore.    *)
(* The two do not call each other; each has its own specification          *)
(* (Spec for the tree, CacheSpec for the cache).                           *)
(***************************************************************************)
EXTENDS Integers, Sequences, FiniteSets, TLC

VARIABLES tree, prev, op, res, nextId, steps, reversed, versions,
          chunks, chunk_size, backing, handle, iter, cpanic, clog,
          overflow_checks

treeVars == <<tree, prev, op, res, nextId, steps, reversed, versions>>
cacheVars == <<chunks, chunk_size, backing, handle, iter, cpanic, clog,
               overflow_checks>>
vars == <<tree, prev, op, res, nextId, steps, reversed, versions,
          chunks, chunk_size, backing, handle, iter, cpanic, clog,
          overflow_checks>>

(***************************************************************************)
(* Bounds of the model.                                                    *)
(***************************************************************************)
\* longest buffer handed to from_slice by the Build action
MaxInit == 4
\* number of insert/remove calls in one behaviour
MaxOps == 2
\* largest chunk_size a Memstore is constructed with
MaxChunkSize == 2
\* number of Memstore calls and handle writes in one behaviour
MaxCacheOps == 6

\* const CHUNK_SIZE: usize = 1024, scaled down so that buffers longer than
\* one chunk can be enumerated; from_slice only compares lengths with it.
CHUNK_SIZE == 3

\* the width of u64 in bits, scaled down so that offsets can be enumerated
\* and index * chunk_size can leave the integer width
U64_BITS == 2

(***************************************************************************)
(* ChunkTree values.  Every Arc::new allocates a node; the id field is the *)
(* identity of that allocation (two handles are the same Arc iff the ids   *)
(* are equal).  Operations thread the next free id.                        *)
(***************************************************************************)
Leaf(id, data) == [kind |-> "Leaf", id |-> id, data |-> data]

\* an Internal constructor that collapses a node of size 0 into an empty leaf
Internal_collapsing(id, left, mid, right, size) ==
    IF size = 0
    THEN Leaf(id, <<>>)
    ELSE [kind |-> "Internal", id |-> id, left |-> left, mid |-> mid,
          right |-> right, size |-> size]

Internal(id, left, mid, right, size) ==
    [kind |-> "Internal", id |-> id, left |-> left, mid |-> mid,
     right |-> right, size |-> size]

\* the outcome of an operation: a new root and the next free id, or a panic
Ok(t, n) == [ok |-> TRUE, t |-> t, n |-> n]
Panic == [ok |-> FALSE]

\* &data[..k] and &data[k..]; the caller checks k <= data.len() (a slice out
\* of range panics)
SliceTo(data, k) == SubSeq(data, 1, k)
SliceFrom(data, k) == SubSeq(data, k + 1, Len(data))

RECURSIVE from_slice(_, _)
\* from_slice with the right half starting one byte late
from_slice_late_right(data, n) ==
    IF Len(data) <= CHUNK_SIZE
    THEN Ok(Leaf(n, data), n + 1)
    ELSE LET mid_index == Len(data) \div 2
             left == from_slice(SliceTo(data, mid_index), n)
             right == from_slice(SliceFrom(data, mid_index + 1), left.n)
             mid == Leaf(right.n, <<>>)
         IN Ok(Internal(right.n + 1, left.t, mid, right.t, Len(data)), right.n + 2)

\* from_slice with the threshold test off by one
from_slice_wide_leaf(data, n) ==
    IF Len(data) <= CHUNK_SIZE + 1
    THEN Ok(Leaf(n, data), n + 1)
    ELSE LET mid_index == Len(data) \div 2
             left == from_slice(SliceTo(data, mid_index), n)
             right == from_slice(SliceFrom(data, mid_index), left.n)
             mid == Leaf(right.n, <<>>)
         IN Ok(Internal(right.n + 1, left.t, mid, right.t, Len(data)), right.n + 2)

from_slice(data, n) ==
    IF Len(data) <= CHUNK_SIZE
    THEN Ok(Leaf(n, data), n + 1)
    ELSE LET mid_index == Len(data) \div 2
             left == from_slice(SliceTo(data, mid_index), n)
             right == from_slice(SliceFrom(data, mid_index), left.n)
             size == Len(data)
             mid == Leaf(right.n, <<>>)
         IN Ok(Internal(right.n + 1, left.t, mid, right.t, size), right.n + 2)

\* ChunkTree::new
new(n) == from_slice(<<>>, n)

len(t) == IF t.kind = "Leaf" THEN Len(t.data) ELSE t.size

is_empty(t) == IF t.kind = "Leaf" THEN t.data = <<>> ELSE t.size = 0

RECURSIVE collect_bytes(_)
collect_bytes(t) ==
    IF t.kind = "Leaf"
    THEN t.data
    ELSE collect_bytes(t.left) \o collect_bytes(t.mid) \o collect_bytes(t.right)

RECURSIVE insert(_, _, _, _)
\* insert whose Internal arm writes the new children and size into the
\* node it was called on instead of allocating a new one
insert_in_place(self, index, data, n) ==
    IF self.kind = "Leaf"
    THEN IF index > Len(self.data)
         THEN Panic
         ELSE LET left == from_slice(SliceTo(self.data, index), n)
                  mid == from_slice(data, left.n)
                  right == from_slice(SliceFrom(self.data, index), mid.n)
              IN Ok(Internal(right.n, left.t, mid.t, right.t,
                             Len(self.data) + Len(data)), right.n + 1)
    ELSE LET left_size == len(self.left)
         IN IF index <= left_size
            THEN LET new_left == insert(self.left, index, data, n)
                 IN IF ~new_left.ok THEN Panic
                    ELSE Ok(Internal(self.id, new_left.t, self.mid, self.right,
                                     len(new_left.t) + len(self.mid) + len(self.right)),
                            new_left.n)
            ELSE IF index <= left_size + len(self.mid)
            THEN LET new_mid == insert(self.mid, index - left_size, data, n)
                 IN IF ~new_mid.ok THEN Panic
                    ELSE Ok(Internal(self.id, self.left, new_mid.t, self.right,
                                     left_size + len(new_mid.t) + len(self.right)),
                            new_mid.n)
            ELSE LET new_right == insert(self.right,
                                         index - left_size - len(self.mid), data, n)
                 IN IF ~new_right.ok THEN Panic
                    ELSE Ok(Internal(self.id, self.left, self.mid, new_right.t,
                                     left_size + len(self.mid) + len(new_right.t)),
                            new_right.n)

\* insert whose left arm copies the right sibling instead of cloning the Arc
insert_copying(self, index, data, n) ==
    IF self.kind = "Leaf"
    THEN IF index > Len(self.data)
         THEN Panic
         ELSE LET left == from_slice(SliceTo(self.data, index), n)
                  mid == from_slice(data, left.n)
                  right == from_slice(SliceFrom(self.data, index), mid.n)
              IN Ok(Internal(right.n, left.t, mid.t, right.t,
                             Len(self.data) + Len(data)), right.n + 1)
    ELSE LET left_size == len(self.left)
         IN IF index <= left_size
            THEN LET new_left == insert(self.left, index, data, n)
                 IN IF ~new_left.ok THEN Panic
                    ELSE LET copy == from_slice(collect_bytes(self.right), new_left.n)
                         IN Ok(Internal(copy.n, new_left.t, self.mid, copy.t,
                                        len(new_left.t) + len(self.mid)
                                            + len(self.right)),
                               copy.n + 1)
            ELSE IF index <= left_size + len(self.mid)
            THEN LET new_mid == insert(self.mid, index - left_size, data, n)
                 IN IF ~new_mid.ok THEN Panic
                    ELSE Ok(Internal(new_mid.n, self.left, new_mid.t, self.right,
                                     left_size + len(new_mid.t) + len(self.right)),
                            new_mid.n + 1)
            ELSE LET new_right == insert(self.right,
                                         index - left_size - len(self.mid), data, n)
                 IN IF ~new_right.ok THEN Panic
                    ELSE Ok(Internal(new_right.n, self.left, self.mid, new_right.t,
                                     left_size + len(self.mid) + len(new_right.t)),
                            new_right.n + 1)

\* insert whose Leaf arm puts the inserted data into one leaf, unsplit
insert_raw_leaf(self, index, data, n) ==
    IF self.kind = "Leaf"
    THEN IF index > Len(self.data)
         THEN Panic
         ELSE LET left == from_slice(SliceTo(self.data, index), n)
                  mid == Ok(Leaf(left.n, data), left.n + 1)
                  right == from_slice(SliceFrom(self.data, index), mid.n)
              IN Ok(Internal(right.n, left.t, mid.t, right.t,
                             Len(self.data) + Len(data)), right.n + 1)
    ELSE LET left_size == len(self.left)
         IN IF index <= left_size
            THEN LET new_left == insert(self.left, index, data, n)
                 IN IF ~new_left.ok THEN Panic
                    ELSE Ok(Internal(new_left.n, new_left.t, self.mid, self.right,
                                     len(new_left.t) + len(self.mid) + len(self.right)),
                            new_left.n + 1)
            ELSE IF index <= left_size + len(self.mid)
            THEN LET new_mid == insert(self.mid, index - left_size, data, n)
                 IN IF ~new_mid.ok THEN Panic
                    ELSE Ok(Internal(new_mid.n, self.left, new_mid.t, self.right,
                                     left_size + len(new_mid.t) + len(self.right)),
                            new_mid.n + 1)
            ELSE LET new_right == insert(self.right,
                                         index - left_size - len(self.mid), data, n)
                 IN IF ~new_right.ok THEN Panic
                    ELSE Ok(Internal(new_right.n, self.left, self.mid, new_right.t,
                                     left_size + len(self.mid) + len(new_right.t)),
                            new_right.n + 1)

insert(self, index, data, n) ==
    IF self.kind = "Leaf"
    THEN IF index > Len(self.data)
         THEN Panic
         ELSE LET left == from_slice(SliceTo(self.data, index), n)
                  mid == from_slice(data, left.n)
                  right == from_slice(SliceFrom(self.data, index), mid.n)
              IN Ok(Internal(right.n, left.t, mid.t, right.t,
                             Len(self.data) + Len(data)), right.n + 1)
    ELSE LET left_size == len(self.left)
         IN IF index <= left_size
            THEN LET new_left == insert(self.left, index, data, n)
                 IN IF ~new_left.ok THEN Panic
                    ELSE Ok(Internal(new_left.n, new_left.t, self.mid, self.right,
                                     len(new_left.t) + len(self.mid) + len(self.right)),
                            new_left.n + 1)
            ELSE IF index <= left_size + len(self.mid)
            THEN LET new_mid == insert(self.mid, index - left_size, data, n)
                 IN IF ~new_mid.ok THEN Panic
                    ELSE Ok(Internal(new_mid.n, self.left, new_mid.t, self.right,
                                     left_size + len(new_mid.t) + len(self.right)),
                            new_mid.n + 1)
            ELSE LET new_right == insert(self.right,
                                         index - left_size - len(self.mid), data, n)
                 IN IF ~new_right.ok THEN Panic
                    ELSE Ok(Internal(new_right.n, self.left, self.mid, new_right.t,
                                     left_size + len(self.mid) + len(new_right.t)),
                            new_right.n + 1)

\* a Range<usize>: start..end, with no order between the two enforced
Range(start, end) == [start |-> start, end |-> end]

\* ExactSizeIterator::len of a Range<usize>: 0 when start >= end
range_len(range) ==
    IF range.start < range.end THEN range.end - range.start ELSE 0

range_shift_left(range, amount) ==
    Range(IF amount < range.start THEN range.start - amount ELSE 0,
          IF amount < range.end THEN range.end - amount ELSE 0)

RECURSIVE remove(_, _, _)
\* remove whose Leaf arm cuts the range down to the leaf instead of panicking
remove_clamped(self, range, n) ==
    IF self.kind = "Leaf"
    THEN LET start == IF range.start > Len(self.data) THEN Len(self.data)
                      ELSE range.start
             end == IF range.end > Len(self.data) THEN Len(self.data)
                    ELSE range.end
             left == from_slice(SliceTo(self.data, start), n)
             mid == from_slice(<<>>, left.n)
             right == from_slice(SliceFrom(self.data, end), mid.n)
         IN Ok(Internal(right.n, left.t, mid.t, right.t,
                        Len(self.data) - range_len(Range(start, end))), right.n + 1)
    ELSE IF range.start > self.size
         THEN Ok(Internal(n, self.left, self.mid, self.right, self.size), n + 1)
         ELSE LET new_left == remove(self.left, range, n)
                  new_mid == remove(self.mid,
                                    range_shift_left(range, len(self.left)), new_left.n)
                  new_right == remove(self.right,
                                      range_shift_left(range,
                                          len(self.left) + len(self.mid)),
                                      new_mid.n)
              IN Ok(Internal(new_right.n, new_left.t, new_mid.t, new_right.t,
                             len(new_left.t) + len(new_mid.t) + len(new_right.t)),
                    new_right.n + 1)

remove(self, range, n) ==
    IF self.kind = "Leaf"
    THEN IF range.start > Len(self.data) \/ range.end > Len(self.data)
         THEN Panic
         ELSE LET left == from_slice(SliceTo(self.data, range.start), n)
                  mid == from_slice(<<>>, left.n)
                  right == from_slice(SliceFrom(self.data, range.end), mid.n)
              IN Ok(Internal(right.n, left.t, mid.t, right.t,
                             Len(self.data) - range_len(range)), right.n + 1)
    ELSE IF range.start > self.size
         THEN Ok(Internal(n, self.left, self.mid, self.right, self.size), n + 1)
         ELSE LET new_left == remove(self.left, range, n)
              IN IF ~new_left.ok THEN Panic
                 ELSE LET new_mid == remove(self.mid,
                                 range_shift_left(range, len(self.left)), new_left.n)
                      IN IF ~new_mid.ok THEN Panic
                         ELSE LET new_right == remove(self.right,
                                         range_shift_left(range,
                                             len(self.left) + len(self.mid)),
                                         new_mid.n)
                              IN IF ~new_right.ok THEN Panic
                                 ELSE Ok(Internal(new_right.n, new_left.t, new_mid.t,
                                                  new_right.t,
                                                  len(new_left.t) + len(new_mid.t)
                                                      + len(new_right.t)),
                                         new_right.n + 1)

(***************************************************************************)
(* The tree under edit.  tree is the root the caller holds; one step is    *)
(* one call.  op records the call and its arguments, prev the root it was  *)
(* applied to and res its outcome; a call that panics yields no new root   *)
(* and the caller keeps the old one.  reversed records that some remove    *)
(* with end < start has returned a tree on the way to the current root.    *)
(* versions is the set of roots handed out so far: the caller may keep any *)
(* of them (an Arc lives as long as something refers to it).               *)
(***************************************************************************)
\* Byte values are never inspected by the tree, so buffers of pairwise
\* distinct bytes stand for all buffers of their length.
Buffer(k) == [i \in 1..k |-> i]
Payload(k) == [i \in 1..k |-> 100 + i]

\* lengths of inserted data: none, within one chunk, more than one chunk
PayloadLens == {0, 1, CHUNK_SIZE + 1}

Call(name, index, data, range) ==
    [name |-> name, index |-> index, data |-> data, range |-> range]

Max(a, b) == IF a >= b THEN a ELSE b

\* indices and range bounds the caller tries: everything up to one past the
\* end, by the cached length and by the content
MaxIndex(t) == Max(len(t), Len(collect_bytes(t))) + 1

TreeInit ==
    /\ tree = new(0).t
    /\ prev = new(0).t
    /\ op = Call("new", 0, <<>>, Range(0, 0))
    /\ res = "ok"
    /\ nextId = new(0).n
    /\ steps = 0
    /\ reversed = FALSE
    /\ versions = {new(0).t}

\* ChunkTree::from_slice on a caller's buffer
Build(k) ==
    /\ op.name = "new"
    /\ LET r == from_slice(Buffer(k), nextId)
       IN /\ tree' = r.t
          /\ nextId' = r.n
          /\ versions' = versions \cup {r.t}
    /\ prev' = tree
    /\ op' = Call("from_slice", 0, Buffer(k), Range(0, 0))
    /\ res' = "ok"
    /\ UNCHANGED <<steps, reversed>>
    /\ UNCHANGED cacheVars

\* tree.insert(index, data)
Insert(index, k) ==
    /\ steps < MaxOps
    /\ LET r == insert(tree, index, Payload(k), nextId)
       IN /\ tree' = IF r.ok THEN r.t ELSE tree
          /\ nextId' = IF r.ok THEN r.n ELSE nextId
          /\ res' = IF r.ok THEN "ok" ELSE "panic"
          /\ versions' = IF r.ok THEN versions \cup {r.t} ELSE versions
    /\ prev' = tree
    /\ op' = Call("insert", index, Payload(k), Range(0, 0))
    /\ steps' = steps + 1
    /\ UNCHANGED reversed
    /\ UNCHANGED cacheVars

\* tree.remove(start..end)
Remove(start, end) ==
    /\ steps < MaxOps
    /\ LET r == remove(tree, Range(start, end), nextId)
       IN /\ tree' = IF r.ok THEN r.t ELSE tree
          /\ nextId' = IF r.ok THEN r.n ELSE nextId
          /\ res' = IF r.ok THEN "ok" ELSE "panic"
          /\ versions' = IF r.ok THEN versions \cup {r.t} ELSE versions
          /\ reversed' = (reversed \/ (r.ok /\ end < start))
    /\ prev' = tree
    /\ op' = Call("remove", 0, <<>>, Range(start, end))
    /\ steps' = steps + 1
    /\ UNCHANGED cacheVars

Next ==
    \/ \E k \in 0..MaxInit : Build(k)
    \/ \E index \in 0..MaxIndex(tree), k \in PayloadLens : Insert(index, k)
    \/ \E start \in 0..MaxIndex(tree), end \in 0..MaxIndex(tree) : Remove(start, end)

(***************************************************************************)
(* Properties of the tree.                                                 *)
(***************************************************************************)
\* s with the bytes at positions a..b-1 deleted
Delete(s, a, b) == SubSeq(s, 1, a) \o SubSeq(s, b + 1, Len(s))

\* s with d spliced in at position i
Splice(s, i, d) == SubSeq(s, 1, i) \o d \o SubSeq(s, i + 1, Len(s))

\* every Internal node's size is the sum of its children's lengths
RECURSIVE SizesAddUp(_)
SizesAddUp(t) ==
    t.kind = "Internal" =>
        /\ t.size = len(t.left) + len(t.mid) + len(t.right)
        /\ SizesAddUp(t.left)
        /\ SizesAddUp(t.mid)
        /\ SizesAddUp(t.right)

\* C1: a remove of a range [a,b) with 0 <= a <= b <= length(T), on any tree T
\* the program has built, succeeds; the result flattens to flatten(T) without
\* the bytes a..b-1 and its length is length(T) - (b - a).
C1_RemoveDeletesRange ==
    (/\ op.name = "remove"
     /\ op.range.start <= op.range.end
     /\ op.range.end <= len(prev))
    => /\ res = "ok"
       /\ collect_bytes(tree)
             = Delete(collect_bytes(prev), op.range.start, op.range.end)
       /\ len(tree) = len(prev) - (op.range.end - op.range.start)

\* C2: an insert at an index i with 0 <= i <= length(T), on any tree T the
\* program has built, succeeds; the result flattens to flatten(T) with the
\* data spliced in at i and its length is length(T) + len(data).
C2_InsertSplices ==
    (op.name = "insert" /\ op.index <= len(prev))
    => /\ res = "ok"
       /\ collect_bytes(tree) = Splice(collect_bytes(prev), op.index, op.data)
       /\ len(tree) = len(prev) + Len(op.data)

\* C2 on the trees no reversed-range remove has produced
C2_OnOrderedRanges == ~reversed => C2_InsertSplices

\* C3: from_slice(S) flattens to S and has length len(S), whether S is empty,
\* fits one chunk or is split; the tree of new() has length 0, is empty and
\* flattens to the empty sequence.
C3_BuildRoundTrip ==
    /\ op.name = "from_slice"
          => /\ collect_bytes(tree) = op.data
             /\ len(tree) = Len(op.data)
             /\ is_empty(tree) = (op.data = <<>>)
    /\ op.name = "new"
          => /\ len(tree) = 0
             /\ is_empty(tree)
             /\ collect_bytes(tree) = <<>>

\* a buffer longer than one chunk has been built into an Internal root
C3_Witness ==
    /\ op.name = "from_slice"
    /\ Len(op.data) > CHUNK_SIZE
    /\ tree.kind = "Internal"
    /\ collect_bytes(tree) = op.data

\* C8: an insert at an index beyond length(T) fails, on any tree T the program
\* has built, and the caller gets no new tree.
C8_InsertPastEndFails ==
    (op.name = "insert" /\ op.index > len(prev))
    => res = "panic" /\ tree = prev

\* C8 on the trees no reversed-range remove has produced
C8_OnOrderedRanges == ~reversed => C8_InsertPastEndFails

\* C9: a remove of [a,b) with a <= b and b > length(T) either fails or, only
\* when T's root is Internal and a exceeds its cached size, returns a tree
\* with the flatten and the length of T whose sizes add up if T's did.
C9_RemovePastEndHarmless ==
    (/\ op.name = "remove"
     /\ op.range.start <= op.range.end
     /\ op.range.end > len(prev))
    => \/ res = "panic" /\ tree = prev
       \/ /\ res = "ok"
          /\ prev.kind = "Internal"
          /\ op.range.start > prev.size
          /\ collect_bytes(tree) = collect_bytes(prev)
          /\ len(tree) = len(prev)
          /\ SizesAddUp(prev) => SizesAddUp(tree)

\* a remove past the end of an Internal root has returned a tree
C9_Witness ==
    /\ op.name = "remove"
    /\ op.range.start <= op.range.end
    /\ op.range.end > len(prev)
    /\ res = "ok"
    /\ prev.kind = "Internal"
    /\ len(prev) > 0

\* C10: a remove whose range ends before it starts fails, on any tree T, and
\* the caller gets no new tree.
C10_ReversedRangeFails ==
    (op.name = "remove" /\ op.range.end < op.range.start)
    => res = "panic" /\ tree = prev


\* the nodes of a tree, each with the id of its allocation
RECURSIVE NodesOf(_)
NodesOf(t) ==
    IF t.kind = "Leaf" THEN {t}
    ELSE {t} \cup NodesOf(t.left) \cup NodesOf(t.mid) \cup NodesOf(t.right)

\* the nodes of every root handed out so far
AllNodes == UNION {NodesOf(v) : v \in versions}

\* C11: no insert or remove, successful or rejected, changes a node of any
\* version handed out before: every allocation reachable from any version
\* still holds the one node it was created with (so flatten, length and
\* structure of every version are what they were), every version is kept,
\* and a rejected call leaves the caller with the root it had.
C11_VersionsNeverChange ==
    /\ Cardinality(AllNodes) = Cardinality({node.id : node \in AllNodes})
    /\ prev \in versions
    /\ tree \in versions
    /\ res = "panic" => tree = prev

\* two edits have succeeded in a row and the second shares nodes with the
\* tree it was applied to
C11_Witness ==
    /\ op.name \in {"insert", "remove"}
    /\ res = "ok"
    /\ prev.kind = "Internal"
    /\ Cardinality(versions) >= 4
    /\ NodesOf(prev) \cap NodesOf(tree) # {}

\* the Leaf nodes of a tree
LeavesOf(t) == {node \in NodesOf(t) : node.kind = "Leaf"}

\* C13: every Leaf of from_slice(S) holds at most CHUNK_SIZE bytes; when
\* CHUNK_SIZE < len(S) <= 2 * CHUNK_SIZE the root is Internal, its only
\* non-empty leaves are its left and right children, each of at most
\* CHUNK_SIZE bytes, and its length is len(S).
C13_BuildLeavesWithinChunk ==
    op.name = "from_slice"
    => /\ \A leaf \in LeavesOf(tree) : Len(leaf.data) <= CHUNK_SIZE
       /\ (CHUNK_SIZE < Len(op.data) /\ Len(op.data) <= 2 * CHUNK_SIZE)
             => /\ tree.kind = "Internal"
                /\ tree.left.kind = "Leaf"
                /\ tree.right.kind = "Leaf"
                /\ tree.mid = Leaf(tree.mid.id, <<>>)
                /\ tree.left.data # <<>>
                /\ tree.right.data # <<>>
                /\ tree.left.data \o tree.right.data = op.data
                /\ len(tree) = Len(op.data)

\* a buffer of more than one and at most two chunks has been built
C13_Witness ==
    /\ op.name = "from_slice"
    /\ CHUNK_SIZE < Len(op.data)
    /\ Len(op.data) <= 2 * CHUNK_SIZE
    /\ tree.kind = "Internal"
    /\ Cardinality({leaf \in LeavesOf(tree) : leaf.data # <<>>}) = 2

\* C14: in every tree from_slice, insert or remove has returned, whatever
\* index or range the call was given, every Internal node's size is the sum
\* of its children's lengths, so the length is the number of bytes of the
\* flatten.
C14_SizesAddUp ==
    /\ SizesAddUp(tree)
    /\ len(tree) = Len(collect_bytes(tree))

\* C14 on the trees no reversed-range remove has produced
C14_OnOrderedRanges == ~reversed => C14_SizesAddUp

\* every subtree of t (t starting at byte off) that holds none of the bytes
\* a..b-1 is one of nodes; subtrees holding some of them are descended into
RECURSIVE OffPathShared(_, _, _, _, _)
OffPathShared(t, off, a, b, nodes) ==
    IF b <= off \/ a >= off + len(t)
    THEN t \in nodes
    ELSE t.kind = "Internal"
         => /\ OffPathShared(t.left, off, a, b, nodes)
            /\ OffPathShared(t.mid, off + len(t.left), a, b, nodes)
            /\ OffPathShared(t.right, off + len(t.left) + len(t.mid), a, b, nodes)

\* C15: after a successful remove of a non-empty range on a tree with an
\* Internal root, every subtree of that tree that holds none of the removed
\* bytes is, as the same allocation, a node of the result.
C15_RemoveSharesOffPath ==
    (/\ op.name = "remove"
     /\ res = "ok"
     /\ prev.kind = "Internal"
     /\ op.range.start < op.range.end)
    => OffPathShared(prev, 0, op.range.start, op.range.end, NodesOf(tree))

\* along the descent of insert(index) from old to new: the node is replaced
\* by a new Internal node, the child the index falls in (left if index <=
\* len(left), else mid if index <= len(left) + len(mid), else right) is
\* replaced, and the other two children are the same allocations
RECURSIVE InsertPathShares(_, _, _)
InsertPathShares(old, now, index) ==
    old.kind = "Internal"
    => /\ now.kind = "Internal"
       /\ now.id # old.id
       /\ IF index <= len(old.left)
          THEN /\ now.mid = old.mid
               /\ now.right = old.right
               /\ now.left.id # old.left.id
               /\ InsertPathShares(old.left, now.left, index)
          ELSE IF index <= len(old.left) + len(old.mid)
          THEN /\ now.left = old.left
               /\ now.right = old.right
               /\ now.mid.id # old.mid.id
               /\ InsertPathShares(old.mid, now.mid, index - len(old.left))
          ELSE /\ now.left = old.left
               /\ now.mid = old.mid
               /\ now.right.id # old.right.id
               /\ InsertPathShares(old.right, now.right,
                                   index - len(old.left) - len(old.mid))

\* C16: after a successful insert on a tree with an Internal root, exactly
\* one child of each Internal node on the descent path is replaced and the
\* other two are reference-identical to those of the tree inserted into.
C16_InsertSharesOffPath ==
    (op.name = "insert" /\ res = "ok" /\ prev.kind = "Internal")
    => InsertPathShares(prev, tree, op.index)

\* an insert has descended through two Internal nodes, not by the left
\* child at the root
C16_Witness ==
    /\ op.name = "insert"
    /\ res = "ok"
    /\ op.data # <<>>
    /\ prev.kind = "Internal"
    /\ op.index > len(prev.left)
    /\ \/ prev.mid.kind = "Internal" /\ tree.left = prev.left /\ tree.right = prev.right
       \/ prev.right.kind = "Internal" /\ tree.left = prev.left /\ tree.mid = prev.mid

RECURSIVE Depth(_)
Depth(t) ==
    IF t.kind = "Leaf" THEN 0
    ELSE 1 + Max(Depth(t.left), Max(Depth(t.mid), Depth(t.right)))

RECURSIVE NodeCount(_)
NodeCount(t) ==
    IF t.kind = "Leaf" THEN 1
    ELSE 1 + NodeCount(t.left) + NodeCount(t.mid) + NodeCount(t.right)

\* C17: after every successful insert or remove the result is at least as
\* deep and has at least as many nodes as the tree the operation was applied
\* to, and the result of a remove has an Internal root whatever its content.
C17_NeverShrinks ==
    (op.name \in {"insert", "remove"} /\ res = "ok")
    => /\ Depth(tree) >= Depth(prev)
       /\ NodeCount(tree) >= NodeCount(prev)
       /\ op.name = "remove" => tree.kind = "Internal"

\* the second operation of a sequence is a remove that has emptied a
\* non-empty tree with an Internal root
C17_Witness ==
    /\ op.name = "remove"
    /\ res = "ok"
    /\ steps = 2
    /\ prev.kind = "Internal"
    /\ tree.kind = "Internal"
    /\ collect_bytes(prev) # <<>>
    /\ collect_bytes(tree) = <<>>
    /\ NodeCount(tree) > NodeCount(prev)

\* every Leaf of t holds at most CHUNK_SIZE bytes
RECURSIVE LeavesWithin(_)
LeavesWithin(t) ==
    IF t.kind = "Leaf" THEN Len(t.data) <= CHUNK_SIZE
    ELSE LeavesWithin(t.left) /\ LeavesWithin(t.mid) /\ LeavesWithin(t.right)

\* C21: in every tree that new, from_slice and any sequence of successful
\* insert and remove calls have returned, every Leaf holds at most
\* CHUNK_SIZE bytes.
C21_LeavesWithinChunk ==
    \A v \in versions \cup {tree, prev} : LeavesWithin(v)

\* a remove of a non-empty range has succeeded on a tree that an insert of
\* more than CHUNK_SIZE bytes produced
C21_Witness ==
    /\ op.name = "remove"
    /\ res = "ok"
    /\ op.range.start < op.range.end
    /\ steps = 2
    /\ Depth(prev) >= 2
    /\ Len(collect_bytes(prev)) > CHUNK_SIZE
    /\ ~reversed
    /\ \E v \in versions :
          /\ collect_bytes(v) # <<>>
          /\ Len(collect_bytes(v)) + CHUNK_SIZE < Len(collect_bytes(prev))
    /\ Len(collect_bytes(tree)) < Len(collect_bytes(prev))

(***************************************************************************)
(* Memstore.  chunks is the HashMap<u64, Chunk>, chunk_size the field of   *)
(* that name.  backing is the content behind the LoadStore capability: a   *)
(* store that keeps what store() gave it and hands it back from load().    *)
(* handle is the chunk index behind the &mut Chunk the caller holds from   *)
(* get (NoRef when it holds none), iter the index field of the live        *)
(* ChunkIter (NoRef when there is none).  cpanic: the thread has panicked. *)
(* overflow_checks: whether the build traps on integer overflow (debug) or *)
(* wraps (release).  clog is the record of the run that the properties     *)
(* read: the last call, the map and the store before it, the store() calls *)
(* it made, per chunk index the number of load() calls, store() calls and  *)
(* handle writes that set need_store, the chunk index of the entry the     *)
(* call returned (index), and for a ChunkIter the offset it was made at    *)
(* and the number k of next() calls made on it.                            *)
(***************************************************************************)
U64 == 0..(2^U64_BITS - 1)

NoRef == 0 - 1

Empty == [kind |-> "Empty"]
Loaded(data, need_store) ==
    [kind |-> "Loaded", data |-> data, need_store |-> need_store]

\* what the caller writes through a handle
CallerData == <<9>>
ChunkValues == {Empty, Loaded(CallerData, FALSE), Loaded(CallerData, TRUE)}

\* LoadStore::load: Some(data) as <<data>>, None as <<>>
load(b, index) == IF index \in DOMAIN b THEN <<b[index]>> ELSE <<>>

\* LoadStore::store
store(b, index, data) ==
    [i \in (DOMAIN b) \cup {index} |-> IF i = index THEN data ELSE b[i]]

\* the closure of or_insert_with_key in Memstore::get
\* a lazy load that marks what it loaded as needing a store
load_chunk_dirty(b, index) ==
    IF load(b, index) # <<>> THEN Loaded(load(b, index)[1], TRUE) ELSE Empty

\* a lazy load that caches an absent chunk as Loaded with no bytes
load_chunk_default(b, index) ==
    IF load(b, index) # <<>> THEN Loaded(load(b, index)[1], FALSE)
    ELSE Loaded(<<>>, FALSE)

load_chunk(b, index) ==
    IF load(b, index) # <<>> THEN Loaded(load(b, index)[1], FALSE) ELSE Empty

\* get that loads and overwrites the entry on every call (insert in place of
\* entry().or_insert_with_key)
get_reloading(m, b, loads, size, offset) ==
    LET chunk_index == offset \div size
    IN [index |-> chunk_index,
        chunks |-> [i \in (DOMAIN m) \cup {chunk_index} |->
                       IF i = chunk_index THEN load_chunk(b, chunk_index)
                       ELSE m[i]],
        loads |-> [loads EXCEPT ![chunk_index] = @ + 1]]

\* Memstore::get on a map m: the map and the load counts after the call
get(m, b, loads, size, offset) ==
    LET chunk_index == offset \div size
    IN IF chunk_index \in DOMAIN m
       THEN [index |-> chunk_index, chunks |-> m, loads |-> loads]
       ELSE [index |-> chunk_index,
             chunks |-> [i \in (DOMAIN m) \cup {chunk_index} |->
                            IF i = chunk_index THEN load_chunk(b, chunk_index)
                            ELSE m[i]],
             loads |-> [loads EXCEPT ![chunk_index] = @ + 1]]

\* the loop body clearing need_store without calling store
store_entry_dropping(index, chunk) ==
    IF chunk.kind = "Loaded" /\ chunk.need_store
    THEN [chunk |-> [chunk EXCEPT !.need_store = FALSE], calls |-> <<>>]
    ELSE [chunk |-> chunk, calls |-> <<>>]

\* the loop body calling store without clearing need_store
store_entry_keeping_flag(index, chunk) ==
    IF chunk.kind = "Loaded" /\ chunk.need_store
    THEN [chunk |-> chunk, calls |-> <<[index |-> index, data |-> chunk.data]>>]
    ELSE [chunk |-> chunk, calls |-> <<>>]

\* the loop body without the test of need_store
store_entry_any_loaded(index, chunk) ==
    IF chunk.kind = "Loaded"
    THEN [chunk |-> [chunk EXCEPT !.need_store = FALSE],
          calls |-> <<[index |-> index, data |-> chunk.data]>>]
    ELSE [chunk |-> chunk, calls |-> <<>>]

\* one pass of the loop body of store_all over the entry of index
store_entry(index, chunk) ==
    IF chunk.kind = "Loaded" /\ chunk.need_store
    THEN [chunk |-> [chunk EXCEPT !.need_store = FALSE],
          calls |-> <<[index |-> index, data |-> chunk.data]>>]
    ELSE [chunk |-> chunk, calls |-> <<>>]

\* the store() calls of store_all over the entries keys, each visited once,
\* in the order the map iterates them
RECURSIVE store_calls(_, _)
store_calls(m, keys) ==
    IF keys = {} THEN <<>>
    ELSE LET index == CHOOSE i \in keys : TRUE
         IN store_entry(index, m[index]).calls \o store_calls(m, keys \ {index})

RECURSIVE apply_calls(_, _)
apply_calls(b, calls) ==
    IF calls = <<>> THEN b
    ELSE apply_calls(store(b, calls[1].index, calls[1].data), Tail(calls))

Count(calls, index) == Cardinality({k \in DOMAIN calls : calls[k].index = index})

Zeros == [i \in U64 |-> 0]

Log(name, arg, calls, loads, stores, marks) ==
    [op |-> name, arg |-> arg, before |-> chunks, bbefore |-> backing,
     calls |-> calls, loads |-> loads, stores |-> stores, marks |-> marks,
     index |-> NoRef, offset |-> NoRef, k |-> 0, n |-> clog.n + 1]

\* the backing store at the start: even chunk indices hold one byte
InitialBacking == [i \in {j \in U64 : j % 2 = 0} |-> <<i>>]

\* Memstore::new
CacheInit ==
    /\ chunks = <<>>
    /\ chunk_size \in 0..MaxChunkSize
    /\ backing = InitialBacking
    /\ handle = NoRef
    /\ iter = NoRef
    /\ cpanic = FALSE
    /\ overflow_checks \in BOOLEAN
    /\ clog = [op |-> "new", arg |-> 0, before |-> <<>>, bbefore |-> InitialBacking,
               calls |-> <<>>, loads |-> Zeros, stores |-> Zeros, marks |-> Zeros,
               index |-> NoRef, offset |-> NoRef, k |-> 0, n |-> 0]

CanCall == ~cpanic /\ clog.n < MaxCacheOps

\* a call that panics: nothing of the cache changes, the thread is gone
Panics(name, arg) ==
    /\ cpanic' = TRUE
    /\ clog' = Log(name, arg, <<>>, clog.loads, clog.stores, clog.marks)
    /\ handle' = NoRef
    /\ iter' = NoRef
    /\ UNCHANGED <<chunks, chunk_size, backing, overflow_checks>>
    /\ UNCHANGED treeVars

\* memstore.get(offset); the caller keeps the &mut Chunk
Get(offset) ==
    /\ CanCall
    /\ IF chunk_size = 0
       THEN Panics("get", offset)
       ELSE LET r == get(chunks, backing, clog.loads, chunk_size, offset)
            IN /\ chunks' = r.chunks
               /\ handle' = r.index
               /\ iter' = NoRef
               /\ clog' = [Log("get", offset, <<>>, r.loads, clog.stores, clog.marks)
                              EXCEPT !.index = r.index]
               /\ UNCHANGED <<chunk_size, backing, cpanic, overflow_checks>>
               /\ UNCHANGED treeVars

\* the caller assigns through the &mut Chunk and lets it go
Mutate(c) ==
    /\ CanCall
    /\ handle # NoRef
    /\ chunks' = [chunks EXCEPT ![handle] = c]
    /\ clog' = Log("write", handle, <<>>, clog.loads, clog.stores,
                   IF c.kind = "Loaded" /\ c.need_store
                   THEN [clog.marks EXCEPT ![handle] = @ + 1]
                   ELSE clog.marks)
    /\ handle' = NoRef
    /\ UNCHANGED <<chunk_size, backing, iter, cpanic, overflow_checks>>
    /\ UNCHANGED treeVars

\* memstore.store_all()
StoreAll ==
    /\ CanCall
    /\ LET calls == store_calls(chunks, DOMAIN chunks)
       IN /\ chunks' = [i \in DOMAIN chunks |-> store_entry(i, chunks[i]).chunk]
          /\ backing' = apply_calls(backing, calls)
          /\ clog' = Log("store_all", 0, calls, clog.loads,
                         [i \in U64 |-> clog.stores[i] + Count(calls, i)],
                         clog.marks)
    /\ handle' = NoRef
    /\ iter' = NoRef
    /\ UNCHANGED <<chunk_size, cpanic, overflow_checks>>
    /\ UNCHANGED treeVars

\* memstore.iter_at(offset)
IterAt(offset) ==
    /\ CanCall
    /\ IF chunk_size = 0
       THEN Panics("iter_at", offset)
       ELSE /\ iter' = offset \div chunk_size
            /\ handle' = NoRef
            /\ clog' = [Log("iter_at", offset, <<>>, clog.loads, clog.stores,
                            clog.marks)
                           EXCEPT !.offset = offset]
            /\ UNCHANGED <<chunks, chunk_size, backing, cpanic, overflow_checks>>
            /\ UNCHANGED treeVars

\* ChunkIter::next: get(index * chunk_size), then index += 1.  A product or
\* a sum beyond u64 panics when overflow checks are on and wraps otherwise.
IterNext ==
    /\ CanCall
    /\ iter # NoRef
    /\ LET product == iter * chunk_size
           offset == product % (2^U64_BITS)
           r == get(chunks, backing, clog.loads, chunk_size, offset)
       IN IF product \notin U64 /\ overflow_checks
          THEN Panics("next", iter)
          ELSE /\ chunks' = r.chunks
               /\ clog' = [Log("next", iter, <<>>, r.loads, clog.stores, clog.marks)
                              EXCEPT !.index = r.index, !.offset = clog.offset,
                                     !.k = clog.k + 1]
               /\ handle' = NoRef
               /\ IF iter + 1 \in U64
                  THEN iter' = iter + 1 /\ cpanic' = cpanic
                  ELSE IF overflow_checks
                       THEN iter' = NoRef /\ cpanic' = TRUE
                       ELSE iter' = 0 /\ cpanic' = cpanic
               /\ UNCHANGED <<chunk_size, backing, overflow_checks>>
               /\ UNCHANGED treeVars

CacheNext ==
    \/ \E offset \in U64 : Get(offset)
    \/ \E c \in ChunkValues : Mutate(c)
    \/ StoreAll
    \/ \E offset \in U64 : IterAt(offset)
    \/ IterNext

(***************************************************************************)
(* Properties of the cache.                                                *)
(***************************************************************************)
Dirty(chunk) == chunk.kind = "Loaded" /\ chunk.need_store

\* the number of store(index, data) calls of the last call
CallsOf(index, data) ==
    Cardinality({k \in DOMAIN clog.calls :
                    clog.calls[k] = [index |-> index, data |-> data]})

\* C4: right after store_all the backing store holds, for every entry that
\* was Loaded and dirty, the bytes the cache holds for it; one store_all
\* calls store at most once per index; and no index has been stored more
\* often than the caller has marked it dirty.
C4_NoLostNoDuplicateWrite ==
    /\ clog.op = "store_all"
          => /\ \A i \in DOMAIN clog.before :
                    Dirty(clog.before[i])
                    => /\ chunks[i].kind = "Loaded"
                       /\ load(backing, i) = <<chunks[i].data>>
             /\ \A i \in U64 : Count(clog.calls, i) <= 1
    /\ \A i \in U64 : clog.stores[i] <= clog.marks[i]

\* a store_all has written a dirty entry whose bytes the store did not hold
C4_Witness ==
    /\ clog.op = "store_all"
    /\ \E i \in DOMAIN clog.before :
          /\ Dirty(clog.before[i])
          /\ load(clog.bbefore, i) # <<clog.before[i].data>>
          /\ load(backing, i) = <<chunks[i].data>>

\* C5: one store_all calls store(i, data_i) exactly once for each entry i
\* that is Loaded and dirty when it starts, and when it returns no Loaded
\* entry is dirty.
C5_FlushStoresEachDirtyOnce ==
    clog.op = "store_all"
    => /\ \A i \in DOMAIN clog.before :
              Dirty(clog.before[i])
              => /\ CallsOf(i, clog.before[i].data) = 1
                 /\ Count(clog.calls, i) = 1
       /\ \A i \in DOMAIN chunks : ~Dirty(chunks[i])

\* a store_all has run over a map with a dirty entry and another entry
C5_Witness ==
    /\ clog.op = "store_all"
    /\ \E i \in DOMAIN clog.before : Dirty(clog.before[i])
    /\ Cardinality(DOMAIN clog.before) >= 2

\* C6: store_all calls store only for entries that are Loaded and dirty when
\* it starts; what the store holds for any other index is as before; and
\* every entry keeps its variant and its data.
C6_FlushSkipsCleanAndEmpty ==
    clog.op = "store_all"
    => /\ \A k \in DOMAIN clog.calls :
              /\ clog.calls[k].index \in DOMAIN clog.before
              /\ Dirty(clog.before[clog.calls[k].index])
       /\ \A i \in U64 :
              (i \notin DOMAIN clog.before \/ ~Dirty(clog.before[i]))
              => load(backing, i) = load(clog.bbefore, i)
       /\ DOMAIN chunks = DOMAIN clog.before
       /\ \A i \in DOMAIN chunks :
              /\ chunks[i].kind = clog.before[i].kind
              /\ chunks[i].kind = "Loaded" => chunks[i].data = clog.before[i].data

\* a store_all has run over an Empty entry and over a Loaded entry whose bytes
\* the caller changed without setting need_store
C6_Witness ==
    /\ clog.op = "store_all"
    /\ \E i \in DOMAIN clog.before : clog.before[i] = Empty
    /\ \E i \in DOMAIN clog.before :
          /\ clog.before[i] = Loaded(CallerData, FALSE)
          /\ load(backing, i) # <<CallerData>>

\* C7: get hands out the entry of index offset / chunk_size, and an entry
\* that is already cached is handed out as it is (so what was written
\* through an earlier handle is there); load has been called exactly once
\* for every cached index and never for any other.
C7_SameEntryLoadedOnce ==
    /\ \A i \in U64 : clog.loads[i] = IF i \in DOMAIN chunks THEN 1 ELSE 0
    /\ (clog.op = "get" /\ ~cpanic)
          => /\ handle = clog.arg \div chunk_size
             /\ handle \in DOMAIN chunks
             /\ handle \in DOMAIN clog.before
                   => chunks[handle] = clog.before[handle]

\* a second get, at another offset of the same chunk, has handed out the
\* entry the caller wrote through the first handle
C7_Witness ==
    /\ clog.op = "get"
    /\ ~cpanic
    /\ clog.arg # handle * chunk_size
    /\ handle \in DOMAIN clog.before
    /\ chunks[handle] = Loaded(CallerData, TRUE)
    /\ load(backing, handle) # <<CallerData>>


\* C12: no Memstore with chunk_size = 0 exists on which get or iter_at can
\* be called: construction with a zero chunk size is rejected.
C12_ZeroChunkSizeRejected ==
    clog.op \in {"get", "iter_at"} => chunk_size # 0

\* C18: a step of the sequence made by iter_at(offset) never fails or ends;
\* the k-th step (k = 0, 1, ...) returns the entry of chunk index
\* offset / chunk_size + k and leaves the map as get of that chunk's first
\* byte would, whatever the size of (offset / chunk_size + k) * chunk_size.
C18_StepYieldsNextIndex ==
    clog.op = "next"
    => LET expected == (clog.offset \div chunk_size) + (clog.k - 1)
       IN /\ ~cpanic
          /\ clog.index = expected
          /\ expected \in DOMAIN chunks
          /\ \A i \in DOMAIN chunks :
                chunks[i] = IF i \in DOMAIN clog.before THEN clog.before[i]
                            ELSE load_chunk(clog.bbefore, expected)
          /\ DOMAIN chunks = DOMAIN clog.before \cup {expected}

\* the same while index * chunk_size and index + 1 stay inside u64
C18_WithoutOverflow ==
    (/\ clog.op = "next"
     /\ ((clog.offset \div chunk_size) + (clog.k - 1)) * chunk_size \in U64
     /\ (clog.offset \div chunk_size) + clog.k \in U64)
    => C18_StepYieldsNextIndex

\* C19: get, store_all, iter_at and next never turn need_store from false
\* to true: an entry that is dirty after one of them was in the map and
\* dirty before it, so an entry a lazy load creates is clean; and a dirty
\* entry has had its flag set through a handle more often than it has been
\* stored.
C19_CacheNeverMarksDirty ==
    /\ clog.op # "write"
       => \A i \in DOMAIN chunks :
              Dirty(chunks[i]) => i \in DOMAIN clog.before /\ Dirty(clog.before[i])
    /\ \A i \in DOMAIN chunks :
           Dirty(chunks[i]) => clog.marks[i] > clog.stores[i]

\* get or next has loaded an entry with data from the store while another
\* entry of the map is dirty
C19_Witness ==
    /\ clog.op \in {"get", "next"}
    /\ clog.index \in DOMAIN chunks
    /\ clog.index \notin DOMAIN clog.before
    /\ chunks[clog.index].kind = "Loaded"
    /\ \E j \in DOMAIN chunks : Dirty(chunks[j])

\* C20: the map starts empty, only get and next add an entry (the one they
\* return) and nothing removes one, so the map holds exactly the indices a
\* load was made for; a new entry is Loaded exactly when load returned data
\* for its index, and no call but a write through a handle changes whether
\* an entry is Loaded or Empty.
C20_LazyPopulation ==
    /\ clog.op = "new" => chunks = <<>>
    /\ DOMAIN chunks = {i \in U64 : clog.loads[i] > 0}
    /\ DOMAIN chunks = DOMAIN clog.before
                           \cup (IF clog.op \in {"get", "next"} /\ clog.index # NoRef
                                 THEN {clog.index} ELSE {})
    /\ clog.op # "write"
       => \A i \in DOMAIN chunks :
              IF i \in DOMAIN clog.before
              THEN chunks[i].kind = clog.before[i].kind
              ELSE chunks[i].kind = "Loaded" <=> load(clog.bbefore, i) # <<>>

\* get or next has cached an absent chunk as Empty in a map that already
\* held an Empty and a Loaded entry, both left as they were
C20_Witness ==
    /\ clog.op \in {"get", "next"}
    /\ clog.index \in DOMAIN chunks
    /\ clog.index \notin DOMAIN clog.before
    /\ chunks[clog.index] = Empty
    /\ \E i, j \in DOMAIN clog.before :
          /\ clog.before[i] = Empty /\ chunks[i] = Empty
          /\ clog.before[j].kind = "Loaded" /\ chunks[j] = clog.before[j]

(***************************************************************************)
(* The two specifications.  Each leaves the other component as built.      *)
(***************************************************************************)
Init == TreeInit /\ CacheInit /\ chunk_size = 1 /\ overflow_checks = TRUE

Spec == Init /\ [][Next]_vars

CacheSpecInit == CacheInit /\ TreeInit

CacheSpec == CacheSpecInit /\ [][CacheNext]_vars

====
